---- MODULE Spec2Model ----
(***************************************************************************)
(* A model of docs/extractor.py: the support-matrix extractor.             *)
(*                                                                         *)
(* main() walks the list of container images; for each image it loads the  *)
(* store file, skips the image when its record is already present, starts  *)
(* a container inside managed_container(), probes it, writes the store     *)
(* file and leaves the with-scope.  After the loop, when the store file's  *)
(* mtime changed, open_pr() publishes the file: it creates a scratch       *)
(* branch (retrying on GithubException with an incremented counter),       *)
(* commits the file, compares with main and opens a pull request.          *)
(*                                                                         *)
(* Text is modelled as sequences of one-character strings so that          *)
(* str.replace and the f-string that builds the ref name are computed.     *)
(*                                                                         *)
(* Environment (what the collaborators may do):                            *)
(*   - containers.run succeeds, or raises ImageNotFound or another         *)
(*     Exception;                                                          *)
(*   - the probes and derivations in the body of the with-statement        *)
(*     complete or raise; the write of the store file succeeds;            *)
(*   - create_git_ref raises GithubException when the ref exists, and may  *)
(*     raise it for another API error; get_contents, update_file and       *)
(*     compare succeed or raise GithubException; create_pull succeeds or   *)
(*     raises; GitRef.delete succeeds.                                     *)
(***************************************************************************)
EXTENDS Integers, Sequences, FiniteSets, TLC

VARIABLES
    \* ---- what outlives a run
    run,            \* number of the current run of the program (1..MaxRuns)
    fileExists,     \* os.path.exists(datafile)
    file,           \* the parsed content of the store file (data.json)
    mtime,          \* st_mtime of the store file, one tick per write
    mainContent,    \* content of the store file on the remote branch main
    branches,       \* remote: the refs that exist besides main
    pulls,          \* remote: heads of the pull requests that were opened
    started,        \* docker: containers this run started, by image index
    stopped,        \* docker: containers on which stop() was called
    removed,        \* docker: containers on which remove() was called
    history,        \* per finished/ongoing run: release and ref created
    \* ---- one run of main()
    args,           \* parse_args(): version, force, file
    env,            \* os.environ: GH_TOKEN, SKIP_PR
    pc,             \* position of the run
    exc,            \* the exception that ended the run, or "none"
    idx,            \* index into containers of the image being processed
    data,           \* xtr.data (xtr.contdata is data[name][release])
    container,      \* the value yielded by managed_container
    pending,        \* exception raised by the body of the with-statement
    start_mtime,    \* jsonfile_start_mtime
    \* ---- open_pr()
    counter,        \* counter
    remote_ref,     \* remote_ref.ref, or <<>> before a ref is created
    content,        \* content read from the store file
    commit,         \* content of the commit update_file made, when made
    committed,      \* whether update_file returned
    apiCalls,       \* the calls made to the source-hosting API, in order
    logged,         \* messages logged by this run
    \* ---- one call of a method of SupportMatrixExtractor, on its own
    contdata,       \* xtr.contdata
    call            \* the call made: its arguments, what the container
                    \* answered, and how the call ended

vars == <<run, fileExists, file, mtime, mainContent, branches, pulls,
          started, stopped, removed, history,
          args, env, pc, exc, idx, data, container, pending, start_mtime,
          counter, remote_ref, content, commit, committed, apiCalls, logged,
          contdata, call>>

-----------------------------------------------------------------------------
(* Bounds of the model *)

\* number of runs of the program against the same store file and repository
MaxRuns == 2
\* number of images in the list main() walks
NumContainers == 2
\* largest N for which prefix-1 .. prefix-N exist on the remote at the start
MaxExisting == 26
\* the same, where the program is run again and again
MaxExistingRuns == 2
\* most failures of create_git_ref in one run that are not name collisions
MaxApiErrors == 1

-----------------------------------------------------------------------------
(* Text *)

Digits == <<"0", "1", "2", "3", "4", "5", "6", "7", "8", "9">>

RECURSIVE Str(_)
\* str(n) of a natural number, as the f-string formats counter
Str(n) == IF n < 10 THEN <<Digits[n + 1]>>
          ELSE Append(Str(n \div 10), Digits[(n % 10) + 1])

\* s.replace(old, "") for a one-character old
Replace(s, old) == SelectSeq(s, LAMBDA c : c # old)

\* the releases (args.version) of the model: "22.03" and "22.04"
Releases == { <<"2", "2", ".", "0", "3">>, <<"2", "2", ".", "0", "4">> }

\* a variant of PrBranch that keeps the dots of the release
PrBranchKeepsDots(release) ==
    <<"d", "o", "c", "s", "-", "s", "m", "x", "-">> \o release

\* pr_branch = "docs-smx-" + release.replace(".", "")
PrBranch(release) ==
    <<"d", "o", "c", "s", "-", "s", "m", "x", "-">> \o Replace(release, ".")

\* remote_branch = f"refs/heads/{pr_branch}-{counter}"
RemoteBranch(release, c) ==
    <<"r", "e", "f", "s", "/", "h", "e", "a", "d", "s", "/">>
        \o PrBranch(release) \o <<"-">> \o Str(c)

-----------------------------------------------------------------------------
(* The record store *)

\* SupportMatrixExtractor.ERROR: the sentinel, a text of one symbol
ERROR == <<"Not applicable">>

\* {} : a dict with no key
EmptyDict == [k \in {} |-> 0]

\* d[k] = v on a dict
Put(d, k, v) == [x \in (DOMAIN d) \cup {k} |-> IF x = k THEN v ELSE d[x]]

ngc_base == "nvcr.io/nvidia/merlin/"

AllContainers == <<"merlin-training", "merlin-tensorflow-training",
                   "merlin-pytorch-training", "merlin-inference",
                   "merlin-tensorflow-inference", "merlin-pytorch-inference">>

\* the list main() iterates over, cut to the model's bound
containers == SubSeq(AllContainers, 1, NumContainers)

\* the container_name handed to SupportMatrixExtractor
Name(i) == ngc_base \o containers[i]

\* the field records the probes of one image can produce: the variable is
\* set in the image, or it is not and the probe stores the sentinel
ProbeRecords == { [cuda |-> <<"1", "1", ".", "6">>], [cuda |-> ERROR] }

\* __init__: self.data[self.container_name][self.release] = self.contdata
InitData(name, release) == Put(EmptyDict, name, Put(EmptyDict, release, EmptyDict))

\* a variant of FromJson that starts from an empty store every time
FromJsonFresh(exists, f, name, release, force) == InitData(name, release)

\* from_json: the value of self.data after it
FromJson(exists, f, name, release, force) ==
    IF ~exists THEN InitData(name, release)
    ELSE LET d1 == IF name \notin DOMAIN f THEN Put(f, name, EmptyDict) ELSE f
         IN  IF release \notin DOMAIN d1[name] \/ force
             THEN Put(d1, name, Put(d1[name], release, EmptyDict))
             ELSE d1

\* a variant of AlreadyPresent that does not look for the file
AlreadyPresentIgnoresFile(exists, d, name, release) ==
    IF name \notin DOMAIN d THEN FALSE
    ELSE IF release \notin DOMAIN d[name] THEN FALSE
    ELSE IF Cardinality(DOMAIN d[name][release]) < 1 THEN FALSE
    ELSE TRUE

\* a variant of AlreadyPresent that wants more than one field in the record
AlreadyPresentWantsTwo(exists, d, name, release) ==
    IF ~exists THEN FALSE
    ELSE IF name \notin DOMAIN d THEN FALSE
    ELSE IF release \notin DOMAIN d[name] THEN FALSE
    ELSE IF Cardinality(DOMAIN d[name][release]) <= 1 THEN FALSE
    ELSE TRUE

\* already_present
AlreadyPresent(exists, d, name, release) ==
    IF ~exists THEN FALSE
    ELSE IF name \notin DOMAIN d THEN FALSE
    ELSE IF release \notin DOMAIN d[name] THEN FALSE
    ELSE IF Cardinality(DOMAIN d[name][release]) < 1 THEN FALSE
    ELSE TRUE

\* the store files a run may find: none yet written, or one that holds the
\* record of the first image for the first release
InitialStores ==
    { EmptyDict,
      Put(EmptyDict, Name(1),
          Put(EmptyDict, <<"2", "2", ".", "0", "3">>,
              [cuda |-> <<"1", "1", ".", "6">>])) }

-----------------------------------------------------------------------------
(* State of a run *)

NoContainer == [kind |-> "None", id |-> 0]

\* no method of SupportMatrixExtractor is being called on its own
NoCall == [kind |-> "none"]

unitVars == <<contdata, call>>

NoRef == <<>>

ArgsSet == [version : Releases, force : BOOLEAN, file : BOOLEAN]

EnvSet == [GH_TOKEN : BOOLEAN, SKIP_PR : BOOLEAN]

\* the locals of main() and open_pr() at the start of a run
RunInit(a, e) ==
    /\ args = a
    /\ env = e
    /\ pc = "main"
    /\ exc = "none"
    /\ idx = 1
    /\ data = EmptyDict
    /\ container = NoContainer
    /\ pending = "none"
    /\ start_mtime = 0
    /\ counter = 0
    /\ remote_ref = NoRef
    /\ content = EmptyDict
    /\ commit = EmptyDict
    /\ committed = FALSE
    /\ apiCalls = <<>>
    /\ logged = {}

\* the scratch branches left on the remote by earlier publish runs of the
\* first release: prefix-1 .. prefix-n
Existing(n) == { RemoteBranch(<<"2", "2", ".", "0", "3">>, k) : k \in 1..n }

InitWith(maxN) ==
    /\ run = 1
    /\ fileExists \in BOOLEAN
    /\ file \in IF fileExists THEN InitialStores ELSE {EmptyDict}
    /\ mtime = 0
    /\ mainContent = file
    /\ \E n \in 0..maxN : branches = Existing(n)
    /\ pulls = {}
    /\ started = {}
    /\ stopped = {}
    /\ removed = {}
    /\ \E a \in ArgsSet, e \in EnvSet :
          /\ RunInit(a, e)
          /\ history = <<[release |-> a.version, ref |-> NoRef, deleted |-> FALSE]>>
    /\ contdata = EmptyDict
    /\ call = NoCall

\* one run of the program
Init == InitWith(MaxExisting)

\* the first of several runs of the program
InitRuns == InitWith(MaxExistingRuns)

persistent == <<run, fileExists, file, mtime, mainContent, branches, pulls,
                started, stopped, removed, history>>
openPrVars == <<counter, remote_ref, content, commit, committed, apiCalls>>
remoteVars == <<mainContent, branches, pulls>>
dockerVars == <<started, stopped, removed>>
fileVars == <<fileExists, file, mtime>>

\* an exception leaves main(): the program ends
Raise(e) == pc' = "exit" /\ exc' = e

-----------------------------------------------------------------------------
(* main() *)

\* lines 306-322: jsonfile_start_mtime = jsonfile.stat().st_mtime on the
\* default path, which raises when there is no data.json beside the script
MainStart ==
    /\ pc = "main"
    /\ IF ~args.file /\ ~fileExists
       THEN /\ Raise("FileNotFoundError")
            /\ UNCHANGED start_mtime
       ELSE /\ start_mtime' = mtime
            /\ pc' = "image"
            /\ UNCHANGED exc
    /\ UNCHANGED unitVars
    /\ UNCHANGED <<persistent, args, env, idx, data, container, pending,
                   openPrVars, logged>>

\* lines 331-340: xtr = SupportMatrixExtractor(...); xtr.from_json();
\* skip the image when it is already present and force is False
BeginImage ==
    /\ pc = "image"
    /\ idx <= Len(containers)
    /\ data' = FromJson(fileExists, file, Name(idx), args.version, args.force)
    /\ IF AlreadyPresent(fileExists, data', Name(idx), args.version)
          /\ args.force = FALSE
       THEN /\ logged' = logged \cup {"...skipping because container is already in data."}
            /\ idx' = idx + 1
            /\ pc' = "image"
       ELSE /\ pc' = "run_container"
            /\ UNCHANGED <<logged, idx>>
    /\ UNCHANGED unitVars
    /\ UNCHANGED <<persistent, args, env, exc, container, pending, start_mtime,
                   openPrVars>>

\* lines 65-81: client.containers.run(...) inside managed_container; the
\* container is yielded, or the exception that run() raised is
RunContainer ==
    /\ pc = "run_container"
    /\ \E outcome \in {"Container", "ImageNotFound", "Exception"} :
          /\ container' = [kind |-> outcome, id |-> idx]
          /\ started' = IF outcome = "Container"
                        THEN started \cup {idx} ELSE started
    /\ pc' = "body"
    /\ UNCHANGED unitVars
    /\ UNCHANGED <<run, fileVars, remoteVars, stopped, removed, history,
                   args, env, exc, idx, data, pending, start_mtime,
                   openPrVars, logged>>

\* a variant of IsException that recognises ImageNotFound alone
IsExceptionNotFoundOnly(c) == c.kind = "ImageNotFound"

\* line 343: isinstance(container, Exception)
IsException(c) == c.kind # "Container"

\* a variant of SkipImage that saves the store before it continues
SkipImageSaves ==
    /\ pc = "body"
    /\ IsException(container)
    /\ logged' = logged \cup {"...image is not found."}
    /\ pc' = "to_json_file"
    /\ UNCHANGED unitVars
    /\ UNCHANGED <<persistent, args, env, exc, idx, data, container, pending,
                   start_mtime, openPrVars>>

\* lines 343-345: the yielded value is an exception: log and continue
SkipImage ==
    /\ pc = "body"
    /\ IsException(container)
    /\ logged' = logged \cup {"...image is not found."}
    /\ pc' = "exit_scope"
    /\ UNCHANGED unitVars
    /\ UNCHANGED <<persistent, args, env, exc, idx, data, container, pending,
                   start_mtime, openPrVars>>

\* lines 347-413: the snippets, the probes and the derivations fill
\* xtr.contdata, or one of them raises
Probe ==
    /\ pc = "body"
    /\ ~IsException(container)
    /\ \/ \E rec \in ProbeRecords :
             /\ data' = Put(data, Name(idx),
                            Put(data[Name(idx)], args.version, rec))
             /\ pc' = "to_json_file"
             /\ UNCHANGED pending
       \/ /\ pending' = "KeyError"
          /\ pc' = "exit_scope"
          /\ UNCHANGED data
    /\ logged' = logged \cup {"...container is running."}
    /\ UNCHANGED unitVars
    /\ UNCHANGED <<persistent, args, env, exc, idx, container, start_mtime,
                   openPrVars>>

\* line 415 and lines 273-277: xtr.to_json_file()
ToJsonFile ==
    /\ pc = "to_json_file"
    /\ file' = data
    /\ fileExists' = TRUE
    /\ mtime' = mtime + 1
    /\ pc' = "exit_scope"
    /\ UNCHANGED unitVars
    /\ UNCHANGED <<run, remoteVars, dockerVars, history, args, env, exc, idx,
                   data, container, pending, start_mtime, openPrVars, logged>>

\* a variant of Finally that leaves the container running
FinallyLeavesRunning(c) == UNCHANGED <<stopped, removed>>

\* lines 82-85: the finally clause of managed_container
Finally(c) ==
    IF c.kind = "Container"
    THEN /\ stopped' = stopped \cup {c.id}
         /\ removed' = removed \cup {c.id}
    ELSE UNCHANGED <<stopped, removed>>

\* Leaving the with-statement.  Without an exception the generator is
\* resumed, runs its finally clause and ends.  An exception of the body is
\* thrown into the generator at "yield container", which is inside the try:
\* "except Exception as e: yield e" (lines 80-81) catches it and yields a
\* second time, so contextlib raises RuntimeError("generator didn't stop
\* after throw()").  The generator is then suspended at line 81 with its
\* finally clause not run; contextlib closes it before raising (Python 3.12
\* and later), or leaves it to the garbage collector (earlier versions).
ExitScope ==
    /\ pc = "exit_scope"
    /\ IF pending = "none"
       THEN /\ Finally(container)
            /\ idx' = idx + 1
            /\ pc' = "image"
            /\ UNCHANGED exc
       ELSE /\ \/ Finally(container)
               \/ UNCHANGED <<stopped, removed>>
            /\ Raise("RuntimeError")
            /\ UNCHANGED idx
    /\ UNCHANGED unitVars
    /\ UNCHANGED <<run, fileVars, remoteVars, started, history, args, env,
                   data, container, pending, start_mtime, openPrVars, logged>>

\* lines 419-426: after the loop.  With --file, jsonfile is the str that
\* os.path.abspath returned, which has no stat().
AfterLoop ==
    /\ pc = "image"
    /\ idx > Len(containers)
    /\ IF args.file
       THEN Raise("AttributeError")
       ELSE /\ pc' = IF mtime # start_mtime /\ ~env.SKIP_PR
                     THEN "open_pr" ELSE "exit"
            /\ UNCHANGED exc
    /\ UNCHANGED unitVars
    /\ UNCHANGED <<persistent, args, env, idx, data, container, pending,
                   start_mtime, openPrVars, logged>>

-----------------------------------------------------------------------------
(* open_pr() *)

\* the bound of the retry loop: "if counter > 25"
MaxAttempts == 25

Call(op, ref, ok) == [op |-> op, ref |-> ref, ok |-> ok]

\* a variant of TokenMissing that never sees the token missing
TokenMissingNever == FALSE

\* lines 94-95: token is None
TokenMissing == ~env.GH_TOKEN

\* lines 94-109: without GH_TOKEN log and return; otherwise read the file,
\* get the repository and set counter = 1
OpenPr ==
    /\ pc = "open_pr"
    /\ IF TokenMissing
       THEN /\ logged' = logged \cup {"Env var GH_TOKEN is not found. Cannot open PR."}
            /\ pc' = "exit"
            /\ UNCHANGED <<counter, content, apiCalls>>
       ELSE /\ content' = file
            /\ apiCalls' = Append(apiCalls, Call("get_repo", NoRef, TRUE))
            /\ counter' = 1
            /\ pc' = "create_git_ref"
            /\ UNCHANGED logged
    /\ UNCHANGED unitVars
    /\ UNCHANGED <<persistent, args, env, exc, idx, data, container, pending,
                   start_mtime, remote_ref, commit, committed>>

\* a variant of GiveUp that is off by one
GiveUpEarly(c) == c >= MaxAttempts

\* line 123: the loop gives up
GiveUp(c) == c > MaxAttempts

\* a variant of Raised in which the failure of create_git_ref is ignored
RaisedNever(ok) == FALSE

\* line 117: the except clause is entered when create_git_ref raised
Raised(ok) == ~ok

\* the failures of create_git_ref so far that were not name collisions
\* (no ref is created or deleted while the loop runs)
ApiErrors ==
    Cardinality({ i \in DOMAIN apiCalls :
                    /\ apiCalls[i].op = "create_git_ref"
                    /\ ~apiCalls[i].ok
                    /\ apiCalls[i].ref \notin branches })

\* lines 110-128: one turn of the while loop.  create_git_ref raises
\* GithubException when the ref exists, and may raise it otherwise.
CreateGitRef ==
    /\ pc = "create_git_ref"
    /\ LET remote_branch == RemoteBranch(args.version, counter) IN
       \E ok \in BOOLEAN :
          /\ ok => remote_branch \notin branches
          /\ (~ok /\ remote_branch \notin branches) => ApiErrors < MaxApiErrors
          /\ apiCalls' = Append(apiCalls, Call("create_git_ref", remote_branch, ok))
          /\ IF ~Raised(ok)
             THEN /\ branches' = branches \cup {remote_branch}
                  /\ remote_ref' = remote_branch
                  /\ history' = [history EXCEPT ![run].ref = remote_branch]
                  /\ logged' = logged \cup {"Remote ref created"}
                  /\ pc' = "get_contents"
                  /\ UNCHANGED <<counter, exc>>
             ELSE /\ logged' = logged \cup {"PR branch already exists. Incrementing the counter."}
                  /\ counter' = counter + 1
                  /\ IF GiveUp(counter')
                     THEN Raise("GithubException")
                     ELSE UNCHANGED <<pc, exc>>
                  /\ UNCHANGED <<branches, remote_ref, history>>
    /\ UNCHANGED unitVars
    /\ UNCHANGED <<run, fileVars, mainContent, pulls, dockerVars, args, env,
                   idx, data, container, pending, start_mtime, content, commit,
                   committed>>

\* an API call of open_pr that is not inside a try: it returns, or its
\* GithubException leaves open_pr and main
Unguarded(op, next) ==
    \E ok \in BOOLEAN :
       /\ apiCalls' = Append(apiCalls, Call(op, remote_ref, ok))
       /\ IF ok THEN pc' = next /\ UNCHANGED exc
                ELSE Raise("GithubException")

\* line 130: f = r.get_contents(path, ref=remote_ref.ref)
GetContents ==
    /\ pc = "get_contents"
    /\ Unguarded("get_contents", "update_file")
    /\ UNCHANGED unitVars
    /\ UNCHANGED <<persistent, args, env, idx, data, container, pending,
                   start_mtime, counter, remote_ref, content, commit,
                   committed, logged>>

\* line 131: result = r.update_file(...): a commit of content on the branch
UpdateFile ==
    /\ pc = "update_file"
    /\ Unguarded("update_file", "compare")
    /\ IF pc' = "compare"
       THEN commit' = content /\ committed' = TRUE
       ELSE UNCHANGED <<commit, committed>>
    /\ UNCHANGED unitVars
    /\ UNCHANGED <<persistent, args, env, idx, data, container, pending,
                   start_mtime, counter, remote_ref, content, logged>>

\* a variant of NoChanges that never finds the diff empty
NoChangesNever == FALSE

\* len(diff.files) == 0: the commit changed nothing against main
NoChanges == commit = mainContent

\* lines 132-134: diff = r.compare(main, commit)
Compare ==
    /\ pc = "compare"
    /\ Unguarded("compare", IF NoChanges THEN "delete" ELSE "create_pull")
    /\ logged' = IF pc' = "delete" THEN logged \cup {"No changes to commit."}
                 ELSE logged
    /\ UNCHANGED unitVars
    /\ UNCHANGED <<persistent, args, env, idx, data, container, pending,
                   start_mtime, counter, remote_ref, content, commit,
                   committed>>

\* lines 135-136: remote_ref.delete(); return
Delete ==
    /\ pc = "delete"
    /\ apiCalls' = Append(apiCalls, Call("delete", remote_ref, TRUE))
    /\ branches' = branches \ {remote_ref}
    /\ history' = [history EXCEPT ![run].deleted = TRUE]
    /\ pc' = "exit"
    /\ UNCHANGED unitVars
    /\ UNCHANGED <<run, fileVars, mainContent, pulls, dockerVars, args,
                   env, exc, idx, data, container, pending, start_mtime,
                   counter, remote_ref, content, commit, committed, logged>>

\* a variant of PullFailed that logs and raises again
PullFailedRaises ==
    /\ logged' = logged \cup {"Failed to open PR"}
    /\ Raise("Exception")

\* lines 146-147: except Exception as e: logger.info(...); open_pr returns
PullFailed ==
    /\ logged' = logged \cup {"Failed to open PR"}
    /\ pc' = "exit"
    /\ UNCHANGED exc

\* lines 138-147: create_pull inside try / except Exception
CreatePull ==
    /\ pc = "create_pull"
    /\ \E ok \in BOOLEAN :
          /\ apiCalls' = Append(apiCalls, Call("create_pull", remote_ref, ok))
          /\ IF ok
             THEN /\ pulls' = pulls \cup {remote_ref}
                  /\ logged' = logged \cup {"Opened PR"}
                  /\ pc' = "exit"
                  /\ UNCHANGED exc
             ELSE /\ PullFailed
                  /\ UNCHANGED pulls
    /\ UNCHANGED unitVars
    /\ UNCHANGED <<run, fileVars, mainContent, branches, dockerVars, history,
                   args, env, idx, data, container, pending, start_mtime,
                   counter, remote_ref, content, commit, committed>>

-----------------------------------------------------------------------------
(* The program is run again: same store file, same repository *)

NewRun ==
    /\ pc = "exit"
    /\ run < MaxRuns
    /\ run' = run + 1
    /\ \E a \in ArgsSet, e \in EnvSet :
          /\ args' = a
          /\ env' = e
          /\ history' = Append(history, [release |-> a.version, ref |-> NoRef,
                                         deleted |-> FALSE])
    /\ pc' = "main"
    /\ exc' = "none"
    /\ idx' = 1
    /\ data' = EmptyDict
    /\ container' = NoContainer
    /\ pending' = "none"
    /\ start_mtime' = 0
    /\ counter' = 0
    /\ remote_ref' = NoRef
    /\ content' = EmptyDict
    /\ commit' = EmptyDict
    /\ committed' = FALSE
    /\ apiCalls' = <<>>
    /\ logged' = {}
    /\ started' = {}
    /\ stopped' = {}
    /\ removed' = {}
    /\ UNCHANGED unitVars
    /\ UNCHANGED <<fileVars, remoteVars>>

Next ==
    \/ MainStart
    \/ BeginImage
    \/ RunContainer
    \/ SkipImage
    \/ Probe
    \/ ToJsonFile
    \/ ExitScope
    \/ AfterLoop
    \/ OpenPr
    \/ CreateGitRef
    \/ GetContents
    \/ UpdateFile
    \/ Compare
    \/ Delete
    \/ CreatePull

\* one run of main()
Spec == Init /\ [][Next]_vars

NextRuns == Next \/ NewRun

\* runs of main() one after the other
SpecRuns == InitRuns /\ [][NextRuns]_vars

-----------------------------------------------------------------------------
(* The probes of SupportMatrixExtractor, one call at a time *)

\* longest output of a command in the container, in characters
MaxOut == 2
\* most lines of the output of "pip show"
MaxLines == 2

\* the characters str.isspace, str.strip and str.split take for whitespace
Whitespace == {" ", "\n"}

\* result.isspace(): at least one character, and whitespace only
IsSpace(s) == Len(s) > 0 /\ \A i \in 1..Len(s) : s[i] \in Whitespace

RECURSIVE LStrip(_)
LStrip(s) == IF s # <<>> /\ s[1] \in Whitespace THEN LStrip(Tail(s)) ELSE s

RECURSIVE RStrip(_)
RStrip(s) == IF s # <<>> /\ s[Len(s)] \in Whitespace
             THEN RStrip(SubSeq(s, 1, Len(s) - 1)) ELSE s

\* s.strip()
Strip(s) == RStrip(LStrip(s))

\* the first index of s at or after which a character of set cs stands,
\* Len(s) + 1 when there is none
First(s, cs) ==
    LET hits == { i \in 1..Len(s) : s[i] \in cs }
    IN  IF hits = {} THEN Len(s) + 1
        ELSE CHOOSE i \in hits : \A j \in hits : i <= j

RECURSIVE SplitOn(_, _)
\* s.split(sep) for a one-character sep: empty pieces are kept
SplitOn(s, sep) ==
    LET i == First(s, {sep})
    IN  IF i > Len(s) THEN <<s>>
        ELSE <<SubSeq(s, 1, i - 1)>> \o SplitOn(SubSeq(s, i + 1, Len(s)), sep)

RECURSIVE Split(_)
\* s.split(): the pieces between runs of whitespace, none of them empty
Split(s) ==
    LET t == LStrip(s)
        j == First(t, Whitespace)
    IN  IF t = <<>> THEN <<>>
        ELSE <<SubSeq(t, 1, j - 1)>> \o Split(SubSeq(t, j, Len(t)))

RECURSIVE Join(_, _)
\* sep.join(pieces)
Join(pieces, sep) ==
    IF pieces = <<>> THEN <<>>
    ELSE IF Len(pieces) = 1 THEN pieces[1]
    ELSE pieces[1] \o sep \o Join(Tail(pieces), sep)

\* line.startswith("Version:"), the marker being one symbol of the text
StartsWithVersion(line) == Len(line) >= 1 /\ line[1] = "Version:"

\* lines 177-185: what get_from_envfile leaves in contdata[key]
EnvfileValue(err, out) ==
    IF err # 1 /\ ~IsSpace(out) THEN Strip(Replace(out, "\"")) ELSE ERROR

\* a variant of EnvValue for which every non-zero status is a failure
EnvValueZeroOnly(err, out) ==
    IF err = 0 /\ ~IsSpace(out) THEN Strip(Replace(out, "\"")) ELSE ERROR

\* lines 190-198: what get_from_env leaves in contdata[key]
EnvValue(err, out) ==
    IF err # 1 /\ ~IsSpace(out) THEN Strip(Replace(out, "\"")) ELSE ERROR

\* lines 215-219: versions
Versions(out) ==
    LET lines == SelectSeq(SplitOn(out, "\n"), StartsWithVersion)
    IN  [i \in 1..Len(lines) |-> Split(lines[i])[Len(Split(lines[i]))]]

\* a variant of PipValue that takes the first of several versions
PipValueTakesFirst(err, out) ==
    IF err # 0 THEN ERROR
    ELSE IF Len(Versions(out)) >= 1 THEN Strip(Versions(out)[1])
    ELSE ERROR

\* lines 208-225: what get_from_pip leaves in contdata[key]
PipValue(err, out) ==
    IF err # 0 THEN ERROR
    ELSE IF Len(Versions(out)) = 1 THEN Strip(Versions(out)[1])
    ELSE ERROR

\* lines 242-251: what get_from_cmd leaves in contdata[key]
CmdValue(key, err, out) ==
    IF err # 1
    THEN IF key = "sm" THEN Join(Split(out), <<",", " ">>) ELSE Strip(out)
    ELSE ERROR

\* lines 237-239: "{} GB".format(round(size / 1024 ** 3, 2)), the size being
\* a whole number of GiB in the model
FormatSize(gib) == Str(gib) \o <<".", "0", " ", "G", "B">>

\* lines 236-238: attrs[lookup] is read again, outside the try, for "Size"
ImageRaises(attrs, lookup) == lookup = "Size" /\ lookup \notin DOMAIN attrs

\* lines 230-239: what get_from_image leaves in contdata[key]
ImageValue(attrs, lookup) ==
    IF lookup \notin DOMAIN attrs THEN ERROR
    ELSE IF lookup = "Size" THEN FormatSize(attrs[lookup])
    ELSE attrs[lookup]

\* the texts of at most n characters of the set cs
Texts(cs, n) == UNION { [1..k -> cs] : k \in 0..n }

\* what "echo ${VAR}" and the commands of get_from_cmd may print: any short
\* text, and the "11.6" of a CUDA_VERSION that is set
Outputs ==
    Texts({"1", "\"", " ", "\n"}, MaxOut) \cup { <<"1", "1", ".", "6", "\n">> }

\* the lines "pip show" may print
PipLines ==
    { <<>>,
      <<"Version:", " ", "1">>,
      <<"Version:", " ", "2", " ">>,
      <<"Version:", "1">>,
      <<"Version:">>,
      <<" ", "Version:", " ", "1">>,
      <<"Name:", " ", "Version:">> }

\* what "pip show" may print
PipOutputs ==
    { Join(ls, <<"\n">>) : ls \in UNION { [1..k -> PipLines] : k \in 0..MaxLines } }

\* the exit statuses of a command in the container
Statuses == {0, 1, 2}

\* container.image.attrs: with or without the size and the operating system
ImageAttrs ==
    { EmptyDict, [Size |-> 3], [Os |-> <<"l", "i", "n", "u", "x">>],
      [Size |-> 3, Os |-> <<"l", "i", "n", "u", "x">>] }

\* xtr.contdata as earlier probes may have left it
UnitRecords ==
    { EmptyDict,
      [release |-> <<"2", "2", ".", "0", "3">>],
      [cuda |-> <<"9">>, os |-> ERROR, rmm |-> <<"0">>, size |-> ERROR,
       sm |-> <<"7">>, triton |-> <<"2">>] }

\* the stores already_present may be asked about
UnitStores ==
    LET n1 == ngc_base \o AllContainers[1]
        n2 == ngc_base \o AllContainers[2]
        r1 == <<"2", "2", ".", "0", "3">>
        r2 == <<"2", "2", ".", "0", "4">>
        rec == [cuda |-> <<"1", "1", ".", "6">>]
    IN  { EmptyDict,
          Put(EmptyDict, n1, EmptyDict),
          Put(EmptyDict, n1, Put(EmptyDict, r1, EmptyDict)),
          Put(EmptyDict, n1, Put(EmptyDict, r1, rec)),
          Put(EmptyDict, n1, Put(EmptyDict, r2, rec)),
          Put(EmptyDict, n2, Put(EmptyDict, r1, rec)),
          Put(Put(EmptyDict, n1, Put(EmptyDict, r1, EmptyDict)),
              n2, Put(EmptyDict, r1, rec)) }

\* a probe that runs a command: contdata[key] is set, and the call returns
ExecProbe(kind, key, err, out, value) ==
    /\ call = NoCall
    /\ contdata' = Put(contdata, key, value)
    /\ call' = [kind |-> kind, key |-> key, err |-> err, out |-> out,
                raised |-> FALSE, before |-> contdata]
    /\ UNCHANGED <<run, fileVars, remoteVars, dockerVars, history, args, env,
                   pc, exc, idx, data, container, pending, start_mtime,
                   openPrVars, logged>>

\* lines 174-185: xtr.get_from_envfile("/etc/os-release", "PRETTY_NAME", "os")
GetFromEnvfile ==
    \E err \in Statuses, out \in Outputs :
        ExecProbe("envfile", "os", err, out, EnvfileValue(err, out))

\* lines 187-198: xtr.get_from_env("CUDA_VERSION", "cuda")
GetFromEnv ==
    \E err \in Statuses, out \in Outputs :
        ExecProbe("env", "cuda", err, out, EnvValue(err, out))

\* lines 200-225: xtr.get_from_pip("rmm")
GetFromPip ==
    \E err \in Statuses, out \in PipOutputs :
        ExecProbe("pip", "rmm", err, out, PipValue(err, out))

\* lines 241-251: xtr.get_from_cmd(..., "sm") and xtr.get_from_cmd(..., "triton")
GetFromCmd ==
    \E key \in {"sm", "triton"}, err \in Statuses, out \in Outputs :
        ExecProbe("cmd", key, err, out, CmdValue(key, err, out))

\* lines 227-239: xtr.get_from_image(lookup, "size"); the sentinel is stored
\* first, and stays when the call raises
GetFromImage ==
    /\ call = NoCall
    /\ \E attrs \in ImageAttrs, lookup \in {"Size", "Os"} :
          /\ contdata' = Put(contdata, "size",
                             IF ImageRaises(attrs, lookup) THEN ERROR
                             ELSE ImageValue(attrs, lookup))
          /\ call' = [kind |-> "image", key |-> "size", lookup |-> lookup,
                      attrs |-> attrs, raised |-> ImageRaises(attrs, lookup),
                      before |-> contdata]
    /\ UNCHANGED <<run, fileVars, remoteVars, dockerVars, history, args, env,
                   pc, exc, idx, data, container, pending, start_mtime,
                   openPrVars, logged>>

\* lines 279-288: xtr.already_present() on a store that was loaded
AlreadyPresentCall ==
    /\ call = NoCall
    /\ \E exists \in BOOLEAN, d \in UnitStores,
          i \in 1..2, release \in Releases :
          call' = [kind |-> "already_present", exists |-> exists, d |-> d,
                   name |-> ngc_base \o AllContainers[i], release |-> release,
                   result |-> AlreadyPresent(exists, d,
                                             ngc_base \o AllContainers[i],
                                             release)]
    /\ UNCHANGED <<run, fileVars, remoteVars, dockerVars, history, args, env,
                   pc, exc, idx, data, container, pending, start_mtime,
                   openPrVars, logged, contdata>>

\* an extractor whose contdata earlier probes have filled, before one call
InitUnit ==
    /\ run = 1
    /\ fileExists = TRUE
    /\ file = EmptyDict
    /\ mtime = 0
    /\ mainContent = EmptyDict
    /\ branches = {}
    /\ pulls = {}
    /\ started = {}
    /\ stopped = {}
    /\ removed = {}
    /\ history = <<>>
    /\ RunInit([version |-> <<"2", "2", ".", "0", "3">>, force |-> FALSE,
                file |-> FALSE],
               [GH_TOKEN |-> FALSE, SKIP_PR |-> FALSE])
    /\ contdata \in UnitRecords
    /\ call = NoCall

NextUnit ==
    \/ GetFromEnvfile
    \/ GetFromEnv
    \/ GetFromPip
    \/ GetFromImage
    \/ GetFromCmd
    \/ AlreadyPresentCall

\* one call of a probe, or of already_present
SpecUnit == InitUnit /\ [][NextUnit]_vars

-----------------------------------------------------------------------------
(* Properties *)

\* the calls of create_git_ref made by this run, in order
CreateCalls == SelectSeq(apiCalls, LAMBDA c : c.op = "create_git_ref")

\* the run has called op on the API (ok: and the call returned)
Called(op) == \E i \in DOMAIN apiCalls : apiCalls[i].op = op
Returned(op) == \E i \in DOMAIN apiCalls : apiCalls[i].op = op /\ apiCalls[i].ok
Failed(op) == \E i \in DOMAIN apiCalls : apiCalls[i].op = op /\ ~apiCalls[i].ok

\* a scratch branch was created by this run
Created == remote_ref # NoRef

\* C1: branch creation is attempted with the counters 1, 2, ... in order; a
\* failed attempt increments the counter and is retried; a run makes at most
\* 25 attempts, and when the 25th fails too the GithubException leaves
\* open_pr with no file update, compare or pull request attempted.
C1_BoundedRetry ==
    LET att == CreateCalls
        n == Len(att)
    IN  /\ n <= 25
        /\ \A i \in 1..n : att[i].ref = RemoteBranch(args.version, i)
        /\ \A i \in 1..n : i < n => ~att[i].ok
        /\ pc = "create_git_ref" =>
              /\ counter = n + 1
              /\ \A i \in 1..n : ~att[i].ok
        /\ (n >= 1 /\ n < 25 /\ ~att[n].ok) => (pc = "create_git_ref" /\ exc = "none")
        /\ (n = 25 /\ ~att[n].ok) =>
              /\ pc = "exit"
              /\ exc = "GithubException"
              /\ ~Created
              /\ ~Called("get_contents") /\ ~Called("update_file")
              /\ ~Called("compare") /\ ~Called("create_pull")

C1_Witness ==
    /\ Len(CreateCalls) = 25
    /\ ~CreateCalls[25].ok
    /\ pc = "exit"
    /\ exc = "GithubException"

\* "refs/heads/docs-smx-" + the release without its dots, written out
ScratchPrefix(v) ==
    <<"r", "e", "f", "s", "/", "h", "e", "a", "d", "s", "/",
      "d", "o", "c", "s", "-", "s", "m", "x", "-", "2", "2", "0">>
        \o (IF v = <<"2", "2", ".", "0", "3">> THEN <<"3">> ELSE <<"4">>)

\* prefix-k
ScratchName(v, k) == ScratchPrefix(v) \o <<"-">> \o Str(k)

\* prefix-1 .. prefix-n
ScratchNames(v, n) == { ScratchName(v, k) : k \in 1..n }

\* the branches prefix-k that existed when open_pr started its loop
AtStart(v) ==
    (branches \ {remote_ref})
        \cap ScratchNames(v, MaxExisting + MaxAttempts)

\* the loop of open_pr has ended
LoopEnded == CreateCalls # <<>> /\ pc # "create_git_ref"

\* every failed create_git_ref of this run was a name collision
OnlyCollisions ==
    \A i \in DOMAIN apiCalls :
        (apiCalls[i].op = "create_git_ref" /\ ~apiCalls[i].ok)
            => apiCalls[i].ref \in branches \ {remote_ref}

\* exactly prefix-1 .. prefix-n existed when open_pr started its loop (the
\* names prefix-k are distinct, so n is the number of them)
ExactlyAtStart(v, n) ==
    LET start == AtStart(v)
    IN  Cardinality(start) = n /\ start = ScratchNames(v, n)

\* C2 as stated: for every N, when exactly prefix-1 .. prefix-N exist at the
\* start of open_pr (and create_git_ref fails for name collisions only), the
\* branch creation succeeds as prefix-(N+1).
C2_NextNameForEveryN ==
    LoopEnded =>
        \A n \in {Cardinality(AtStart(args.version))} :
            (ExactlyAtStart(args.version, n) /\ OnlyCollisions)
                => remote_ref = ScratchName(args.version, n + 1)

\* C2 amended: for every N from 0 to 24, when exactly prefix-1 .. prefix-N
\* exist at the start of open_pr (and create_git_ref fails for name
\* collisions only), the branch creation succeeds as prefix-(N+1), at the
\* attempt N+1.
C2_NextNameUpTo24 ==
    LoopEnded =>
        \A n \in {Cardinality(AtStart(args.version))} \cap 0..24 :
            (ExactlyAtStart(args.version, n) /\ OnlyCollisions)
                => /\ remote_ref = ScratchName(args.version, n + 1)
                   /\ CreateCalls[Len(CreateCalls)].ok
                   /\ Len(CreateCalls) = n + 1

C2_Witness ==
    /\ pc = "get_contents"
    /\ args.version = <<"2", "2", ".", "0", "3">>
    /\ ExactlyAtStart(args.version, 24)
    /\ OnlyCollisions
    /\ remote_ref = ScratchName(args.version, 25)
    /\ remote_ref \in branches

\* two runs of the same release that both created a scratch branch
BothCreated(i, j) ==
    /\ i < j
    /\ history[i].release = history[j].release
    /\ history[i].ref # NoRef
    /\ history[j].ref # NoRef

\* C3 as stated: two runs of the same release in which the branch creation
\* succeeded never use the same scratch branch name, also when the earlier
\* run deleted its branch.
C3_NamesNeverShared ==
    \A i, j \in DOMAIN history :
        BothCreated(i, j) => history[i].ref # history[j].ref

\* C3 amended: two runs of the same release in which the branch creation
\* succeeded use the same scratch branch name only when the earlier run's
\* branch had been deleted; while it exists its name is not used again.
C3_NamesSharedOnlyAfterDelete ==
    \A i, j \in DOMAIN history :
        (BothCreated(i, j) /\ history[i].ref = history[j].ref)
            => history[i].deleted

C3_Witness ==
    /\ Len(history) = 2
    /\ BothCreated(1, 2)
    /\ ~history[1].deleted
    /\ history[1].ref \in branches
    /\ history[2].ref \in branches
    /\ history[1].ref # history[2].ref

\* C4: when compare lists no file (the commit equals main's content of the
\* store file), open_pr deletes the scratch branch it created and returns;
\* create_pull is never called.
C4_IdempotentPublish ==
    (Returned("compare") /\ commit = mainContent) =>
        /\ pc \in {"delete", "exit"}
        /\ ~Called("create_pull")
        /\ remote_ref \notin pulls
        /\ pc = "exit" => (remote_ref \notin branches /\ exc = "none")

C4_Witness ==
    /\ Returned("compare")
    /\ commit = mainContent
    /\ Created
    /\ pc = "exit"
    /\ remote_ref \notin branches

\* C5: a failure of a publish-API call after the branch creation (file
\* update, compare, pull request) is non-fatal: open_pr returns normally.
C5_PublishFailureNonFatal ==
    (pc = "exit" /\ Created) => exc = "none"

\* C6: when the diff is not empty and create_pull fails, open_pr logs the
\* failure and returns normally: nothing propagates to main and the store
\* file is as open_pr read it.
C6_PullFailureSwallowed ==
    Failed("create_pull") =>
        /\ pc = "exit"
        /\ exc = "none"
        /\ "Failed to open PR" \in logged
        /\ commit # mainContent
        /\ file = content

C6_Witness ==
    /\ Failed("create_pull")
    /\ pc = "exit"
    /\ remote_ref \in branches

\* C7: without GH_TOKEN open_pr returns without error and makes no remote
\* operation: no branch, no file update, no compare, no pull request.
C7_NoTokenNoRemoteOperation ==
    ~env.GH_TOKEN =>
        /\ apiCalls = <<>>
        /\ ~Created
        /\ ~committed
        /\ pulls = {}
        /\ branches = Existing(Cardinality(branches))
        /\ pc \notin {"create_git_ref", "get_contents", "update_file",
                      "compare", "delete", "create_pull"}
        /\ ("Env var GH_TOKEN is not found. Cannot open PR." \in logged)
              => (pc = "exit" /\ exc = "none")

C7_Witness ==
    /\ ~env.GH_TOKEN
    /\ "Env var GH_TOKEN is not found. Cannot open PR." \in logged
    /\ pc = "exit"

\* C8: a scratch branch that open_pr created is, when open_pr ends, either
\* deleted or the head of an opened pull request.
C8_BranchDeletedOrHead ==
    (pc = "exit" /\ Created) =>
        (remote_ref \notin branches) # (remote_ref \in pulls)

\* control is inside the with-statement of main
InScope == pc \in {"body", "to_json_file", "exit_scope"}

\* C9: every container managed_container started is stopped and removed
\* when control has left the with-scope, on every exit path.
C9_StoppedAndRemoved ==
    ~InScope => (started \subseteq stopped /\ started \subseteq removed)

\* the start of the container failed and the failure was yielded
StartFailed(c) == c.kind \in {"ImageNotFound", "Exception"}

\* C10: when the start of the container fails, managed_container yields the
\* failure and does not raise; main runs no probe on it, does not write the
\* store file, and goes on with the next image.
C10_StartFailureSkipsImage ==
    [][ /\ (pc = "run_container" /\ StartFailed(container')) =>
              (pc' = "body" /\ exc' = "none" /\ started' = started)
        /\ (pc = "body" /\ StartFailed(container)) =>
              /\ pc' = "exit_scope"
              /\ pending' = "none"
              /\ exc' = "none"
              /\ data' = data
              /\ <<fileExists, file, mtime>>' = <<fileExists, file, mtime>>
        /\ (pc = "exit_scope" /\ StartFailed(container)) =>
              /\ pc' = "image"
              /\ idx' = idx + 1
              /\ exc' = "none"
              /\ <<fileExists, file, mtime>>' = <<fileExists, file, mtime>>
              /\ <<stopped, removed>>' = <<stopped, removed>>
      ]_vars

C10_Witness ==
    /\ pc = "body"
    /\ idx = 2
    /\ StartFailed(container)
    /\ ~fileExists
    /\ mtime = 0
    /\ started = {}
    /\ "...image is not found." \in logged

-----------------------------------------------------------------------------
(* Properties of one call *)

\* a probe has been called
Probed == call.kind \in {"envfile", "env", "pip", "image", "cmd"}

\* the operation under the probe failed: the command ended with the failure
\* status (any non-zero status for pip), or the image has no such attribute
OperationFailed ==
    CASE call.kind \in {"envfile", "env", "cmd"} -> call.err = 1
      [] call.kind = "pip" -> call.err # 0
      [] call.kind = "image" -> call.lookup \notin DOMAIN call.attrs
      [] OTHER -> FALSE

\* every key but the probe's own is as it was
OthersUnchanged ==
    /\ DOMAIN contdata = (DOMAIN call.before) \cup {call.key}
    /\ \A k \in (DOMAIN call.before) \ {call.key} : contdata[k] = call.before[k]

\* C11: for every probe kind, when the operation under it fails (the image
\* attribute, 'Size' also, being absent), the probe stores the sentinel under
\* its own key, leaves the other keys as they were, and does not raise, so
\* that the probes after it run.
C11_FailureIsolated ==
    (Probed /\ OperationFailed) =>
        /\ contdata[call.key] = ERROR
        /\ OthersUnchanged
        /\ ~call.raised

\* C13: already_present() is true exactly when the file exists, the
\* container key is in the store, the release key is under it, and the
\* record of the release has a field.
C13_AlreadyPresentIff ==
    call.kind = "already_present" =>
        (call.result <=>
            /\ call.exists
            /\ call.name \in DOMAIN call.d
            /\ call.release \in DOMAIN call.d[call.name]
            /\ call.d[call.name][call.release] # EmptyDict)

C13_Witness ==
    /\ call.kind = "already_present"
    /\ call.result
    /\ call.exists
    /\ call.d[call.name][call.release] = [cuda |-> <<"1", "1", ".", "6">>]

\* what the probe stores when its command is taken to have succeeded
StoredOnSuccess ==
    CASE call.kind \in {"envfile", "env"} ->
            IF IsSpace(call.out) THEN ERROR
            ELSE Strip(Replace(call.out, "\""))
      [] call.kind = "cmd" ->
            IF call.key = "sm" THEN Join(Split(call.out), <<",", " ">>)
            ELSE Strip(call.out)
      [] call.kind = "pip" -> PipValue(0, call.out)

\* C14 as stated: for the four probe kinds that run a command, the status
\* makes the probe fail only when it is 1; 0 and every other status are
\* treated as success.
C14_OnlyStatusOneFails ==
    call.kind \in {"envfile", "env", "pip", "cmd"} =>
        /\ call.err = 1 => contdata[call.key] = ERROR
        /\ call.err # 1 => contdata[call.key] = StoredOnSuccess

\* C14 amended: for the env-file, env and command probes the status makes
\* the probe fail only when it is 1, 0 and every other status being treated
\* as success; for the pip probe every non-zero status is a failure.
C14_OnlyStatusOneFailsButPip ==
    /\ call.kind \in {"envfile", "env", "cmd"} =>
          /\ call.err = 1 => contdata[call.key] = ERROR
          /\ call.err # 1 => contdata[call.key] = StoredOnSuccess
    /\ call.kind = "pip" =>
          /\ call.err # 0 => contdata[call.key] = ERROR
          /\ call.err = 0 => contdata[call.key] = StoredOnSuccess

C14_Witness ==
    /\ call.kind = "env"
    /\ call.err = 2
    /\ call.out = <<"1", "\n">>
    /\ contdata.cuda = <<"1">>

\* C15: for the env-file and env probes (the command not having failed) an
\* output of no character, or of whitespace only, is a failure and the field
\* holds the sentinel; otherwise the field holds the output without its
\* double quotes and stripped.
C15_EmptyOrBlankIsFailure ==
    (call.kind \in {"envfile", "env"} /\ call.err # 1) =>
        IF call.out = <<>> \/ \A i \in 1..Len(call.out) : call.out[i] \in Whitespace
        THEN contdata[call.key] = ERROR
        ELSE contdata[call.key] = Strip(Replace(call.out, "\""))

\* the places of the output where a line begins with the version marker
VersionLines(out) ==
    { i \in 1..Len(out) : out[i] = "Version:" /\ (i = 1 \/ out[i - 1] = "\n") }

\* the last token of the line that begins at place i of the output
LastToken(out, i) ==
    LET stop == CHOOSE e \in i..Len(out) :
                    /\ \A j \in i..e : out[j] # "\n"
                    /\ e = Len(out) \/ out[e + 1] = "\n"
        last == CHOOSE e \in i..stop :
                    /\ out[e] \notin Whitespace
                    /\ \A j \in (e + 1)..stop : out[j] \in Whitespace
        first == CHOOSE b \in i..last :
                    /\ \A j \in b..last : out[j] \notin Whitespace
                    /\ b = i \/ out[b - 1] \in Whitespace
    IN  SubSeq(out, first, last)

\* C16: for the pip probe with a successful command: with exactly one line
\* that begins with 'Version:' the field is the version token of that line
\* (its last token); with no such line, or several, it is the sentinel.
C16_ExactlyOneVersionLine ==
    (call.kind = "pip" /\ call.err = 0) =>
        IF Cardinality(VersionLines(call.out)) = 1
        THEN contdata[call.key] =
                LastToken(call.out, CHOOSE i \in VersionLines(call.out) : TRUE)
        ELSE contdata[call.key] = ERROR

C16_Witness ==
    /\ call.kind = "pip"
    /\ call.err = 0
    /\ call.out = <<"Name:", " ", "Version:", "\n", "Version:", " ", "1">>
    /\ contdata.rmm = <<"1">>
    /\ call.before # EmptyDict

-----------------------------------------------------------------------------
(* Properties of the store over runs *)

\* the (container, release) entries of a store
Entries(f) == { <<n, r>> \in (DOMAIN f) \X Releases : r \in DOMAIN f[n] }

\* the entry being processed
Current == <<Name(idx), args.version>>

\* C12: whatever the store file holds and whichever (container C, release
\* R) is processed, with force or without, every step of every run leaves
\* each entry of the file in the file, and leaves the record of each entry
\* other than (C, R) identical: no entry once written is ever absent later.
C12_StoreMerge ==
    [][ /\ fileExists => fileExists'
        /\ Entries(file) \subseteq Entries(file')
        /\ \A e \in Entries(file) :
              (idx > Len(containers) \/ e # Current) =>
                  file'[e[1]][e[2]] = file[e[1]][e[2]] ]_vars

\* in a second run, with force, the file has been written for another entry
\* and still holds the record the first store had
C12_Witness ==
    /\ run = 2
    /\ args.force
    /\ pc = "exit_scope"
    /\ mtime > start_mtime
    /\ Current # <<Name(1), <<"2", "2", ".", "0", "3">>>>
    /\ Cardinality(Entries(file)) >= 3
    /\ file[Name(1)][<<"2", "2", ".", "0", "3">>] = [cuda |-> <<"1", "1", ".", "6">>]
    /\ file[Current[1]][Current[2]] = [cuda |-> ERROR]

-----------------------------------------------------------------------------
(* Properties of the loop over the images *)

\* the containers of the run that are running
Running == started \ stopped

\* C17: at every point of a run at most one container that the program
\* started is running, and when the container of the next image is about to
\* be started every container started before is stopped and removed.
C17_OneContainerAtATime ==
    /\ Cardinality(Running) <= 1
    /\ pc = "run_container" => started \subseteq (stopped \cap removed)
    /\ pc = "body" => Running \subseteq {idx}

C17_Witness ==
    /\ pc = "body"
    /\ idx = 2
    /\ container = [kind |-> "Container", id |-> 2]
    /\ started = {1, 2}
    /\ stopped = {1}
    /\ removed = {1}

\* the loop over the images has ended
AllProcessed == pc = "image" /\ idx > Len(containers)

\* C18: once all images are processed main runs the publish workflow if the
\* store file was written in the run and SKIP_PR is not set, and does not run
\* it otherwise, on the default store path and with --file alike.
C18_PublishIffWritten ==
    [][ AllProcessed =>
          (pc' = "open_pr" <=> (mtime # start_mtime /\ ~env.SKIP_PR)) ]_vars

\* the file holds a record with a field for the entry being processed
Saved ==
    /\ fileExists
    /\ Current \in Entries(file)
    /\ file[Current[1]][Current[2]] # EmptyDict

\* C19: in a run without force, an image whose (container, release) record
\* was saved before is skipped: no container is started for it and the
\* store file is not written for it; and when the loop ends with the file
\* not written, the publish workflow is not run.
C19_RerunSkips ==
    [][ /\ (pc = "image" /\ idx <= Len(containers) /\ ~args.force /\ Saved) =>
              /\ pc' = "image"
              /\ idx' = idx + 1
              /\ started' = started
              /\ container' = container
              /\ <<fileExists, file, mtime>>' = <<fileExists, file, mtime>>
        /\ (AllProcessed /\ mtime = start_mtime) => pc' = "exit" ]_vars

\* a second run, without force, has skipped every image that the first run
\* saved, and ended with the file as it was and nothing published
C19_Witness ==
    /\ run = 2
    /\ ~args.force
    /\ ~args.file
    /\ ~env.SKIP_PR
    /\ pc = "exit"
    /\ exc = "none"
    /\ idx > Len(containers)
    /\ mtime = NumContainers
    /\ start_mtime = mtime
    /\ started = {}
    /\ apiCalls = <<>>
    /\ "...skipping because container is already in data." \in logged

\* C20: with force, from_json empties the record of (C, R) in memory; as
\* long as no container was started for C the store file is not written for
\* it, so the record the file held for (C, R) stays in the file unchanged.
C20_ForceStartFailureKeepsRecord ==
    [][ (args.force /\ fileExists) =>
          /\ (pc = "image" /\ idx <= Len(containers)) =>
                data'[Current[1]][Current[2]] = EmptyDict
          /\ \A e \in Entries(file) :
                (idx > Len(containers) \/ e # Current \/ idx \notin started) =>
                    /\ e \in Entries(file')
                    /\ file'[e[1]][e[2]] = file[e[1]][e[2]] ]_vars

\* with force: the first image failed to start, the second one was probed
\* and saved, and the record of the first one is what it was
C20_Witness ==
    /\ args.force
    /\ args.version = <<"2", "2", ".", "0", "3">>
    /\ pc = "exit"
    /\ idx > Len(containers)
    /\ started = {2}
    /\ mtime > start_mtime
    /\ "...image is not found." \in logged
    /\ <<Name(1), args.version>> \in Entries(file)
    /\ file[Name(1)][args.version] = [cuda |-> <<"1", "1", ".", "6">>]
    /\ Name(2) \in DOMAIN file

====
